---- MODULE Spec2Model ----
(***************************************************************************)
(* View-change block processing of a Zilliqa node:                         *)
(*   src/src/libNode/ViewChangeBlockProcessing.cpp                         *)
(*                                                                         *)
(* Node::ProcessVCBlock, Node::VerifyVCBlockCoSignature and                *)
(* Node::UpdateDSCommiteeCompositionAfterVC are modelled statement by      *)
(* statement.  Every read of the shared DS committee is a step of its own, *)
(* because the only synchronisation in the file is the lock_guard inside   *)
(* UpdateDSCommiteeCompositionAfterVC: all other accesses are unlocked.    *)
(***************************************************************************)
EXTENDS Integers, Sequences, FiniteSets

\* Largest DS committee size explored.
MaxN == 4

\* The two epoch numbers a VC block header may carry (1 is the local one).
Epochs == {1, 2}

\* Threads that may deliver a VC block to the node.
Threads == {1, 2}

\* Value of m_mutexDSCommittee when no thread holds it.
Free == 0


VARIABLES
    m_DSCommittee,       \* m_mediator.m_DSCommittee: deque<pair<PubKey, Peer>>
    m_currentEpochNum,   \* m_mediator.m_currentEpochNum
    m_mutexDSCommittee,  \* m_mediator.m_mutexDSCommittee: Free or the holder
    pc,                  \* position of each thread inside ProcessVCBlock
    vcblock,             \* the message each thread is processing
    newCandidateLeader,  \* local of ProcessVCBlock
    x,                   \* loop counter of the commit loop (line 218)
    index,               \* local of VerifyVCBlockCoSignature
    count,               \* local of VerifyVCBlockCoSignature
    keys,                \* local of VerifyVCBlockCoSignature
    vret,                \* return value of VerifyVCBlockCoSignature
    ret,                 \* outcome of ProcessVCBlock
    pre,                 \* the committee as it was when the call started
    entry,               \* the committee as it was when the thread entered
                         \* UpdateDSCommiteeCompositionAfterVC (line 53)
    genesis,             \* the committee the node started with
    prev                 \* the call that returned last: its block, the
                         \* committee it started on and its outcome

vars == <<m_DSCommittee, m_currentEpochNum, m_mutexDSCommittee, pc, vcblock,
          newCandidateLeader, x, index, count, keys, vret, ret, pre,
          entry, genesis, prev>>

locals == <<newCandidateLeader, x, index, count, keys>>

shared == <<m_DSCommittee, m_currentEpochNum, m_mutexDSCommittee>>

\* What the model remembers for the properties; the code reads none of it.
ghosts == <<entry, genesis, prev>>

(***************************************************************************)
(* Data                                                                    *)
(***************************************************************************)

\* A committee member: pair<PubKey, Peer>.
Member(i) == [first |-> i, second |-> 100 + i]

\* The committee of n members with pairwise distinct public keys.
Committee(n) == [i \in 1..n |-> Member(i)]

PubKeys == 1..MaxN

\* Result of MultiSig::AggregatePubKeys when aggregation fails (nullptr):
\* the aggregate of no key at all.
Null == [k \in PubKeys |-> 0]

Peers == {100 + i : i \in 1..MaxN}

\* All bit vectors of length n.
BitVectors(n) == [1..n -> BOOLEAN]

\* The bit vector of length n whose first c bits are set.
PrefixVector(n, c) == [i \in 1..n |-> i <= c]

CountBits(b) == Cardinality({i \in DOMAIN b : b[i]})

\* c rotated left by j positions (the reference the claims compare against).
RotateLeft(c, j) ==
    [i \in 1..Len(c) |-> c[((i - 1 + j) % Len(c)) + 1]]

(***************************************************************************)
(* Collaborators that are not part of the source file                      *)
(***************************************************************************)

\* ConsensusCommon::NumForConsensus: ceil(shardSize * 0.667).
NumForConsensus(n) == (n * 667 + 999) \div 1000

\* The aggregate of a vector of public keys: the sum of the keys, here the
\* multiplicity of every key in the vector.  nullptr for an empty vector.
AggregatePubKeys(ks) ==
    IF Len(ks) = 0
    THEN Null
    ELSE [k \in PubKeys |-> Cardinality({i \in DOMAIN ks : ks[i] = k})]

\* The aggregate key of a set of distinct signers.
KeyOfSigners(S) == [k \in PubKeys |-> IF k \in S THEN 1 ELSE 0]

RECURSIVE PackBits(_, _)
\* Value of the bits b[from..Len(b)] read as a big-endian binary number.
PackBits(b, from) ==
    IF from > Len(b) THEN 0
    ELSE (IF b[from] THEN 2 ^ (Len(b) - from) ELSE 0) + PackBits(b, from + 1)

\* BitVector::SetBitVector: the length of the vector followed by its bits
\* packed into a number (not one byte per bit).
SetBitVector(b) == <<Len(b), PackBits(b, 1)>>

\* VCBlockHeader::Serialize: the fields of the header at fixed offsets.
SerializeHeader(h) ==
    <<h.epoch, h.counter, h.candidateLeaderNetworkInfo, h.candidateLeaderPubKey>>

\* Schnorr::Verify: a signature verifies for exactly the message that was
\* signed, under exactly the aggregate key of those who signed it.
SchnorrVerify(message, sig, key) == sig.message = message /\ sig.key = key

(***************************************************************************)
(* VC blocks                                                               *)
(***************************************************************************)

\* Public keys of the members of c that the bitmap b flags.
FlaggedKeys(b, c) == {c[i].first : i \in {j \in DOMAIN c \cap DOMAIN b : b[j]}}

\* The message without the packed B1: header || CS1 only.
CanonicalMessageWithoutB1(blk) ==
    <<SerializeHeader(blk.header), blk.cs1, <<>>>>

\* Lines 102-106: header || CS1 || packed B1.
CanonicalMessage(blk) ==
    <<SerializeHeader(blk.header), blk.cs1, SetBitVector(blk.b1)>>

\* A VC block as Messenger::GetNodeVCBlock decodes it.  CS2 is a signature
\* by the members `signers` over the block's own canonical message, or, when
\* `tampered`, over the message with another CS1.
Block(e, k, peer, pk, s1, b1, b2, signers, tampered) ==
    LET h == [epoch |-> e, counter |-> k,
              candidateLeaderNetworkInfo |-> peer,
              candidateLeaderPubKey |-> pk]
        signed == CanonicalMessage(
                      [header |-> h, cs1 |-> IF tampered THEN 1 - s1 ELSE s1,
                       b1 |-> b1])
    IN [wellFormed |-> TRUE, header |-> h, cs1 |-> s1, b1 |-> b1, b2 |-> b2,
        cs2 |-> [message |-> signed, key |-> KeyOfSigners(signers)]]

\* A default-constructed VCBlock: what a thread holds outside a call and
\* after a message that does not decode.
NoBlock ==
    [wellFormed |-> FALSE,
     header |-> [epoch |-> 0, counter |-> 0,
                 candidateLeaderNetworkInfo |-> 0, candidateLeaderPubKey |-> 0],
     cs1 |-> 0, b1 |-> <<>>, b2 |-> <<>>,
     cs2 |-> [message |-> <<>>, key |-> KeyOfSigners({})]]

\* Bitmaps B2 offered to a committee of n members: every bitmap of the right
\* length, and bitmaps one shorter and one longer with any number of set bits.
B2Set(n) ==
    BitVectors(n)
      \cup {PrefixVector(n - 1, c) : c \in 0..(n - 1)}
      \cup {PrefixVector(n + 1, c) : c \in 0..(n + 1)}

\* Largest view-change counter offered to a committee of n members: it covers
\* counter < n, counter = n and counter > n.
MaxCounter(n) == n + 2

\* The messages a peer may send while the committee is c.
VCBlocks(c) ==
    LET n == Len(c) IN
    {NoBlock} \cup
    {Block(e, k, c[a].second, c[p].first, s1, PrefixVector(n, n), b2,
           IF allSign THEN FlaggedKeys(PrefixVector(n, n), c)
                      ELSE FlaggedKeys(b2, c),
           tampered) :
        e \in Epochs, k \in 0..MaxCounter(n), a \in 1..n, p \in 1..n,
        s1 \in {0, 1}, b2 \in B2Set(n), allSign \in BOOLEAN,
        tampered \in BOOLEAN}

\* The messages of honest proposers: current epoch, an exact quorum flagged
\* in B2 and signing, the candidate leader being some member of c.
QuorumVCBlocks(c) ==
    LET n == Len(c)
        b2 == PrefixVector(n, NumForConsensus(n))
    IN {Block(1, k, c[a].second, c[a].first, 0, PrefixVector(n, n), b2,
              FlaggedKeys(b2, c), FALSE) :
           k \in 0..MaxCounter(n), a \in 1..n}

(***************************************************************************)
(* The decisions of the code                                               *)
(***************************************************************************)

\* The epoch check with < for !=: only stale blocks are turned away.
WrongEpochStaleOnly(blk, epoch) == blk.header.epoch < epoch

\* Line 166: the epoch check.
WrongEpoch(blk, epoch) == blk.header.epoch # epoch

\* Line 181: the only condition under which the counter is reduced.
CounterExceeds(k, size) == k > size

\* The counter reduced modulo size + 1 instead of size.
WrapCounterOffByOne(k, size) == k % (size + 1)

\* Line 189.
WrapCounter(k, size) == k % size

\* deque::at: in range or std::out_of_range.
InRange(i, c) == i < Len(c)

\* deque::at(i), zero-based.
At(c, i) == c[i + 1]

\* The size check with > for !=: only a bitmap that is too short is
\* turned away.
SizeMismatchShortOnly(c, b2) == Len(c) > Len(b2)

\* Line 66.
SizeMismatch(c, b2) == Len(c) # Len(b2)

\* The quorum check one signer too lenient.
QuorumMismatchOffByOne(cnt, size) == cnt + 1 < NumForConsensus(size)

\* Line 88.
QuorumMismatch(cnt, size) == cnt # NumForConsensus(size)

\* Lines 88-118 once the keys are collected: true iff the co-signature
\* is accepted.
CoSignatureOk(blk, ks, cnt) ==
    /\ ~QuorumMismatch(cnt, Len(blk.b2))
    /\ AggregatePubKeys(ks) # Null
    /\ SchnorrVerify(CanonicalMessage(blk), blk.cs2, AggregatePubKeys(ks))

\* back() for front(): the last member is appended instead of the first.
EmplaceBackBack(c) == Append(c, c[Len(c)])

\* Line 54.
EmplaceBackFront(c) == Append(c, Head(c))

\* pop_back() for pop_front(): the copy of the front member is removed
\* again instead of the front member.
PopBack(c) == SubSeq(c, 1, Len(c) - 1)

\* Line 55.
PopFront(c) == Tail(c)

(***************************************************************************)
(* Initial state                                                           *)
(***************************************************************************)

\* No call has returned yet.
NoCall == [blk |-> NoBlock, pre |-> <<>>, ret |-> "none", vret |-> "none"]

Init ==
    /\ \E n \in 1..MaxN : m_DSCommittee = Committee(n)
    /\ m_currentEpochNum = 1
    /\ m_mutexDSCommittee = Free
    /\ pc = [t \in Threads |-> "idle"]
    /\ vcblock = [t \in Threads |-> NoBlock]
    /\ newCandidateLeader = [t \in Threads |-> 0]
    /\ x = [t \in Threads |-> 0]
    /\ index = [t \in Threads |-> 0]
    /\ count = [t \in Threads |-> 0]
    /\ keys = [t \in Threads |-> <<>>]
    /\ vret = [t \in Threads |-> "none"]
    /\ ret = [t \in Threads |-> "none"]
    /\ pre = [t \in Threads |-> <<>>]
    /\ entry = [t \in Threads |-> <<>>]
    /\ genesis = m_DSCommittee
    /\ prev = NoCall

(***************************************************************************)
(* Node::ProcessVCBlock, one action per statement that touches shared      *)
(* state.  ret[t] is "true" or "false" for the two return values and       *)
(* "exception" when std::out_of_range leaves the function.                 *)
(***************************************************************************)

Goto(t, label) == pc' = [pc EXCEPT ![t] = label]

\* ProcessVCBlock is left with outcome r.
Leave(t, r) ==
    /\ pc' = [pc EXCEPT ![t] = "done"]
    /\ ret' = [ret EXCEPT ![t] = r]

\* Lines 151-157: a message arrives and the call starts.
Receive(t, blk) ==
    /\ pc[t] = "idle"
    /\ vcblock' = [vcblock EXCEPT ![t] = blk]
    /\ pre' = [pre EXCEPT ![t] = m_DSCommittee]
    /\ Goto(t, "decode")
    /\ UNCHANGED <<shared, ghosts, locals, vret, ret>>

\* Lines 159-164: Messenger::GetNodeVCBlock.
GetNodeVCBlock(t) ==
    /\ pc[t] = "decode"
    /\ IF ~vcblock[t].wellFormed
       THEN Leave(t, "false")
       ELSE Goto(t, "epoch") /\ UNCHANGED ret
    /\ UNCHANGED <<shared, ghosts, locals, vcblock, vret, pre>>

\* Lines 166-174: the epoch check.
CheckEpoch(t) ==
    /\ pc[t] = "epoch"
    /\ IF WrongEpoch(vcblock[t], m_currentEpochNum)
       THEN Leave(t, "false")
       ELSE Goto(t, "counter") /\ UNCHANGED ret
    /\ UNCHANGED <<shared, ghosts, locals, vcblock, vret, pre>>

\* Lines 178-181: read the counter and compare it with the committee size.
ReadCounter(t) ==
    /\ pc[t] = "counter"
    /\ newCandidateLeader' =
         [newCandidateLeader EXCEPT ![t] = vcblock[t].header.counter]
    /\ IF CounterExceeds(vcblock[t].header.counter, Len(m_DSCommittee))
       THEN Goto(t, "wrap")
       ELSE Goto(t, "peer")
    /\ UNCHANGED <<shared, ghosts, x, index, count, keys, vcblock, vret, ret, pre>>

\* Lines 188-189: reduce the counter modulo the committee size.
Wrap(t) ==
    /\ pc[t] = "wrap"
    /\ newCandidateLeader' =
         [newCandidateLeader EXCEPT
            ![t] = WrapCounter(newCandidateLeader[t], Len(m_DSCommittee))]
    /\ Goto(t, "peer")
    /\ UNCHANGED <<shared, ghosts, x, index, count, keys, vcblock, vret, ret, pre>>

\* Lines 192-193: at(newCandidateLeader).second against the header.
CheckLeaderNetworkInfo(t) ==
    /\ pc[t] = "peer"
    /\ IF ~InRange(newCandidateLeader[t], m_DSCommittee)
       THEN Leave(t, "exception")
       ELSE IF At(m_DSCommittee, newCandidateLeader[t]).second
                 = vcblock[t].header.candidateLeaderNetworkInfo
            THEN Goto(t, "pubkey") /\ UNCHANGED ret
            ELSE Goto(t, "mismatch") /\ UNCHANGED ret
    /\ UNCHANGED <<shared, ghosts, locals, vcblock, vret, pre>>

\* Lines 194-195: at(newCandidateLeader).first against the header.
CheckLeaderPubKey(t) ==
    /\ pc[t] = "pubkey"
    /\ IF ~InRange(newCandidateLeader[t], m_DSCommittee)
       THEN Leave(t, "exception")
       ELSE IF At(m_DSCommittee, newCandidateLeader[t]).first
                 = vcblock[t].header.candidateLeaderPubKey
            THEN Goto(t, "size") /\ UNCHANGED ret
            ELSE Goto(t, "mismatch") /\ UNCHANGED ret
    /\ UNCHANGED <<shared, ghosts, locals, vcblock, vret, pre>>

\* Lines 198-205: the warning reads at(newCandidateLeader) once more.
LogMismatch(t) ==
    /\ pc[t] = "mismatch"
    /\ IF ~InRange(newCandidateLeader[t], m_DSCommittee)
       THEN Leave(t, "exception")
       ELSE Leave(t, "false")
    /\ UNCHANGED <<shared, ghosts, locals, vcblock, vret, pre>>

(***************************************************************************)
(* Node::VerifyVCBlockCoSignature, called at line 211.  A false return     *)
(* makes ProcessVCBlock return false (lines 211-216).                      *)
(***************************************************************************)

\* Lines 62-73.
VerifySize(t) ==
    /\ pc[t] = "size"
    /\ index' = [index EXCEPT ![t] = 0]
    /\ count' = [count EXCEPT ![t] = 0]
    /\ keys' = [keys EXCEPT ![t] = <<>>]
    /\ IF SizeMismatch(m_DSCommittee, vcblock[t].b2)
       THEN /\ vret' = [vret EXCEPT ![t] = "false"]
            /\ Leave(t, "false")
       ELSE /\ Goto(t, "collect")
            /\ UNCHANGED <<vret, ret>>
    /\ UNCHANGED <<shared, ghosts, newCandidateLeader, x, vcblock, pre>>

\* Lines 78-86: one iteration of the loop over the committee, or its end.
CollectKey(t) ==
    /\ pc[t] = "collect"
    /\ IF index[t] < Len(m_DSCommittee)
       THEN IF index[t] >= Len(vcblock[t].b2)
            THEN \* B2.at(index) throws
                 /\ Leave(t, "exception")
                 /\ UNCHANGED <<index, count, keys>>
            ELSE /\ IF vcblock[t].b2[index[t] + 1]
                    THEN /\ keys' = [keys EXCEPT ![t] =
                                Append(@, At(m_DSCommittee, index[t]).first)]
                         /\ count' = [count EXCEPT ![t] = @ + 1]
                    ELSE UNCHANGED <<keys, count>>
                 /\ index' = [index EXCEPT ![t] = @ + 1]
                 /\ UNCHANGED <<pc, ret>>
       ELSE /\ Goto(t, "cosig")
            /\ UNCHANGED <<index, count, keys, ret>>
    /\ UNCHANGED <<shared, ghosts, newCandidateLeader, x, vcblock, vret, pre>>

\* Lines 211-216 without the return: a failed verification is logged and
\* the commit loop runs all the same.
CheckCoSignatureNoReturn(t) ==
    /\ pc[t] = "cosig"
    /\ vret' = [vret EXCEPT ![t] =
                  IF CoSignatureOk(vcblock[t], keys[t], count[t])
                  THEN "true" ELSE "false"]
    /\ x' = [x EXCEPT ![t] = 0]
    /\ Goto(t, "commit")
    /\ UNCHANGED <<shared, ghosts, newCandidateLeader, index, count, keys, vcblock,
                   ret, pre>>

\* Lines 88-118: quorum, key aggregation and the Schnorr verification.
CheckCoSignature(t) ==
    /\ pc[t] = "cosig"
    /\ IF CoSignatureOk(vcblock[t], keys[t], count[t])
       THEN /\ vret' = [vret EXCEPT ![t] = "true"]
            /\ x' = [x EXCEPT ![t] = 0]
            /\ Goto(t, "commit")
            /\ UNCHANGED ret
       ELSE /\ vret' = [vret EXCEPT ![t] = "false"]
            /\ Leave(t, "false")
            /\ UNCHANGED x
    /\ UNCHANGED <<shared, ghosts, newCandidateLeader, index, count, keys, vcblock,
                   pre>>

(***************************************************************************)
(* The commit loop (lines 218-221) and                                     *)
(* Node::UpdateDSCommiteeCompositionAfterVC (lines 49-56).                 *)
(***************************************************************************)

\* The commit loop with x + 1 < newCandidateLeader for its condition: one
\* rotation short.
CommitLoopOneShort(t) ==
    /\ pc[t] = "commit"
    /\ IF x[t] + 1 < newCandidateLeader[t]
       THEN /\ m_mutexDSCommittee = Free
            /\ m_mutexDSCommittee' = t
            /\ entry' = [entry EXCEPT ![t] = m_DSCommittee]
            /\ Goto(t, "emplace")
            /\ UNCHANGED ret
       ELSE /\ Leave(t, "true")
            /\ UNCHANGED <<m_mutexDSCommittee, entry>>
    /\ UNCHANGED <<genesis, prev>>
    /\ UNCHANGED <<m_DSCommittee, m_currentEpochNum, locals, vcblock, vret,
                   pre>>

\* Line 218, and line 53 when the loop goes on: take the mutex.
\* Lines 227-229 when the loop is over.
CommitLoop(t) ==
    /\ pc[t] = "commit"
    /\ IF x[t] < newCandidateLeader[t]
       THEN /\ m_mutexDSCommittee = Free
            /\ m_mutexDSCommittee' = t
            /\ entry' = [entry EXCEPT ![t] = m_DSCommittee]
            /\ Goto(t, "emplace")
            /\ UNCHANGED ret
       ELSE /\ Leave(t, "true")
            /\ UNCHANGED <<m_mutexDSCommittee, entry>>
    /\ UNCHANGED <<genesis, prev>>
    /\ UNCHANGED <<m_DSCommittee, m_currentEpochNum, locals, vcblock, vret,
                   pre>>

\* Line 54: emplace_back(front()).
EmplaceBack(t) ==
    /\ pc[t] = "emplace"
    /\ m_DSCommittee' = EmplaceBackFront(m_DSCommittee)
    /\ Goto(t, "pop")
    /\ UNCHANGED ghosts
    /\ UNCHANGED <<m_currentEpochNum, m_mutexDSCommittee, locals, vcblock,
                   vret, ret, pre>>

\* Lines 55-56 and the x++ of line 218: pop_front(), release the mutex.
PopFrontUnlock(t) ==
    /\ pc[t] = "pop"
    /\ m_DSCommittee' = PopFront(m_DSCommittee)
    /\ m_mutexDSCommittee' = Free
    /\ x' = [x EXCEPT ![t] = @ + 1]
    /\ Goto(t, "commit")
    /\ entry' = [entry EXCEPT ![t] = <<>>]
    /\ UNCHANGED <<genesis, prev>>
    /\ UNCHANGED <<m_currentEpochNum, newCandidateLeader, index, count, keys,
                   vcblock, vret, ret, pre>>

\* ProcessVCBlock has returned true or false: the thread is ready for
\* the next message.  An exception is not followed by another call.
ResetCall(t) ==
    /\ pc[t] = "done"
    /\ ret[t] \in {"true", "false"}
    /\ pc' = [pc EXCEPT ![t] = "idle"]
    /\ vcblock' = [vcblock EXCEPT ![t] = NoBlock]
    /\ newCandidateLeader' = [newCandidateLeader EXCEPT ![t] = 0]
    /\ x' = [x EXCEPT ![t] = 0]
    /\ index' = [index EXCEPT ![t] = 0]
    /\ count' = [count EXCEPT ![t] = 0]
    /\ keys' = [keys EXCEPT ![t] = <<>>]
    /\ vret' = [vret EXCEPT ![t] = "none"]
    /\ ret' = [ret EXCEPT ![t] = "none"]
    /\ pre' = [pre EXCEPT ![t] = <<>>]
    /\ UNCHANGED shared

Return(t) == ResetCall(t) /\ UNCHANGED ghosts

\* The same return, remembered: the call becomes the previous call.
ReturnRecorded(t) ==
    /\ ResetCall(t)
    /\ prev' = [blk |-> vcblock[t], pre |-> pre[t], ret |-> ret[t],
                vret |-> vret[t]]
    /\ UNCHANGED <<entry, genesis>>

\* One step of thread t inside ProcessVCBlock.
Step(t) ==
    \/ GetNodeVCBlock(t)
    \/ CheckEpoch(t)
    \/ ReadCounter(t)
    \/ Wrap(t)
    \/ CheckLeaderNetworkInfo(t)
    \/ CheckLeaderPubKey(t)
    \/ LogMismatch(t)
    \/ VerifySize(t)
    \/ CollectKey(t)
    \/ CheckCoSignature(t)
    \/ CommitLoop(t)
    \/ EmplaceBack(t)
    \/ PopFrontUnlock(t)

(***************************************************************************)
(* Spec: one thread processes VC blocks one after the other.               *)
(***************************************************************************)

\* Any message may arrive at an idle thread.
ReceiveAny(t) ==
    /\ pc[t] = "idle"
    /\ \E blk \in VCBlocks(m_DSCommittee) : Receive(t, blk)

\* A message of an honest proposer arrives at an idle thread.
ReceiveQuorum(t) ==
    /\ pc[t] = "idle"
    /\ \E blk \in QuorumVCBlocks(m_DSCommittee) : Receive(t, blk)

Next ==
    \/ ReceiveAny(1)
    \/ Step(1)
    \/ Return(1)

Spec == Init /\ [][Next]_vars

(***************************************************************************)
(* HistSpec: one thread processes the blocks of honest proposers one after *)
(* the other, and blocks it has processed before arrive again.             *)
(***************************************************************************)

\* The block of the previous call is delivered once more.
ReceiveReplay(t) ==
    /\ pc[t] = "idle"
    /\ prev.ret # "none"
    /\ Receive(t, prev.blk)

HistNext ==
    \/ ReceiveQuorum(1)
    \/ ReceiveReplay(1)
    \/ Step(1)
    \/ ReturnRecorded(1)

HistSpec == Init /\ [][HistNext]_vars

(***************************************************************************)
(* VerifySpec: VerifyVCBlockCoSignature called on its own, first on a      *)
(* signed block and then on the same block with one component of the       *)
(* signed message changed.  pc "commit" stands for a return of true and    *)
(* pc "done" for a return of false.                                        *)
(***************************************************************************)

\* Blocks with an exact quorum flagged in B2 and signing, for two values
\* of B1.
SignedBlocks(c) ==
    LET n == Len(c)
        b2 == PrefixVector(n, NumForConsensus(n))
    IN {Block(1, k, c[a].second, c[a].first, 0, b1, b2, FlaggedKeys(b2, c),
              FALSE) :
           k \in 0..MaxCounter(n), a \in 1..n,
           b1 \in {PrefixVector(n, n), PrefixVector(n, 1)}}

\* b with bit i flipped.
FlipBit(b, i) == [b EXCEPT ![i] = ~b[i]]

\* The blocks that differ from blk in one component of the signed message
\* (one header field, CS1 or one bit of B1) and keep its CS2 and B2.
Tamperings(blk) ==
    LET n == Len(blk.b2) IN
    {[blk EXCEPT !.header.epoch = e] : e \in Epochs \ {blk.header.epoch}}
      \cup {[blk EXCEPT !.header.counter = k] :
               k \in (0..MaxCounter(n)) \ {blk.header.counter}}
      \cup {[blk EXCEPT !.header.candidateLeaderNetworkInfo = p] :
               p \in Peers \ {blk.header.candidateLeaderNetworkInfo}}
      \cup {[blk EXCEPT !.header.candidateLeaderPubKey = k] :
               k \in PubKeys \ {blk.header.candidateLeaderPubKey}}
      \cup {[blk EXCEPT !.cs1 = 1 - blk.cs1]}
      \cup {[blk EXCEPT !.b1 = FlipBit(blk.b1, i)] : i \in DOMAIN blk.b1}

\* Line 211 / lines 58-62: VerifyVCBlockCoSignature is entered with blk.
EnterVerify(t, blk) ==
    /\ pc[t] = "idle"
    /\ vcblock' = [vcblock EXCEPT ![t] = blk]
    /\ pre' = [pre EXCEPT ![t] = m_DSCommittee]
    /\ Goto(t, "size")
    /\ UNCHANGED <<shared, ghosts, locals, vret, ret>>

\* A signed block is verified.
VerifySigned(t) ==
    /\ pc[t] = "idle"
    /\ \E blk \in SignedBlocks(m_DSCommittee) : EnterVerify(t, blk)

\* The block verified last was accepted; it is verified again with one
\* component of its signed message changed.
VerifyTampered(t) ==
    /\ pc[t] = "idle"
    /\ prev.vret = "true"
    /\ \E blk \in Tamperings(prev.blk) : EnterVerify(t, blk)

\* Lines 72, 91, 98, 115, 118: VerifyVCBlockCoSignature has returned.
VerifyReturned(t) ==
    /\ pc[t] \in {"commit", "done"}
    /\ vret[t] # "none"
    /\ prev' = [blk |-> vcblock[t], pre |-> pre[t], ret |-> "none",
                vret |-> vret[t]]
    /\ pc' = [pc EXCEPT ![t] = "idle"]
    /\ vcblock' = [vcblock EXCEPT ![t] = NoBlock]
    /\ index' = [index EXCEPT ![t] = 0]
    /\ count' = [count EXCEPT ![t] = 0]
    /\ keys' = [keys EXCEPT ![t] = <<>>]
    /\ vret' = [vret EXCEPT ![t] = "none"]
    /\ ret' = [ret EXCEPT ![t] = "none"]
    /\ pre' = [pre EXCEPT ![t] = <<>>]
    /\ UNCHANGED <<shared, entry, genesis, newCandidateLeader, x>>

VerifyNext ==
    \/ VerifySigned(1)
    \/ VerifyTampered(1)
    \/ VerifySize(1)
    \/ CollectKey(1)
    \/ CheckCoSignature(1)
    \/ VerifyReturned(1)

VerifySpec == Init /\ [][VerifyNext]_vars

(***************************************************************************)
(* ConcSpec: two threads each process one VC block on the same committee.  *)
(***************************************************************************)

ConcNext ==
    \/ \E t \in Threads : ReceiveQuorum(t)
    \/ \E t \in Threads : Step(t)

ConcSpec == Init /\ [][ConcNext]_vars

(***************************************************************************)
(* ProcessVCBlock run on its own, from entry to exit, on committee c:      *)
(* the outcome and the committee it leaves.                                *)
(***************************************************************************)

RECURSIVE CollectedKeys(_, _, _)
\* Lines 78-86 for the members c[from..Len(c)].
CollectedKeys(c, b2, from) ==
    IF from > Len(c) THEN <<>>
    ELSE (IF b2[from] THEN <<c[from].first>> ELSE <<>>)
           \o CollectedKeys(c, b2, from + 1)

RECURSIVE Rotated(_, _)
\* Lines 218-221: UpdateDSCommiteeCompositionAfterVC called n times.
Rotated(c, n) ==
    IF n = 0 THEN c ELSE Rotated(PopFront(EmplaceBackFront(c)), n - 1)

ProcessVCBlockAlone(c, blk, epoch) ==
    LET k == IF CounterExceeds(blk.header.counter, Len(c))
             THEN WrapCounter(blk.header.counter, Len(c))
             ELSE blk.header.counter
        ks == CollectedKeys(c, blk.b2, 1)
        out(r, d) == [ret |-> r, committee |-> d]
    IN IF ~blk.wellFormed \/ WrongEpoch(blk, epoch) THEN out("false", c)
       ELSE IF ~InRange(k, c) THEN out("exception", c)
       ELSE IF ~(/\ At(c, k).second = blk.header.candidateLeaderNetworkInfo
                 /\ At(c, k).first = blk.header.candidateLeaderPubKey)
            THEN out("false", c)
       ELSE IF SizeMismatch(c, blk.b2) THEN out("false", c)
       ELSE IF ~CoSignatureOk(blk, ks, Len(ks)) THEN out("false", c)
       ELSE out("true", Rotated(c, k))

(***************************************************************************)
(* Vocabulary of the properties                                            *)
(***************************************************************************)

\* Thread t is inside a call of ProcessVCBlock whose message decoded.
InCall(t) == pc[t] # "idle" /\ vcblock[t].wellFormed

\* The call of thread t is over.
Done(t) == pc[t] = "done"

\* Size of the committee the call of thread t started on.
N(t) == Len(pre[t])

\* The view-change counter of the block thread t processes.
K(t) == vcblock[t].header.counter

\* The block's candidate leader is the member at index K mod N of the
\* committee the call started on.
CandidateMatches(t) ==
    /\ At(pre[t], K(t) % N(t)).second
         = vcblock[t].header.candidateLeaderNetworkInfo
    /\ At(pre[t], K(t) % N(t)).first
         = vcblock[t].header.candidateLeaderPubKey

EpochMatches(t) == vcblock[t].header.epoch = m_currentEpochNum

\* CS2 is a signature over the block's canonical message by exactly the
\* members that B2 flags in the committee the call started on.
SignedByFlagged(t) ==
    vcblock[t].cs2 =
        [message |-> CanonicalMessage(vcblock[t]),
         key |-> KeyOfSigners(FlaggedKeys(vcblock[t].b2, pre[t]))]

\* B2 has the length of the committee and flags at least a quorum.
QuorumFlagged(t) ==
    /\ Len(vcblock[t].b2) = N(t)
    /\ CountBits(vcblock[t].b2) >= NumForConsensus(N(t))

(***************************************************************************)
(* C1                                                                      *)
(***************************************************************************)

\* C1: when ProcessVCBlock returns true for a block with counter k on a
\* committee of size N, the committee is the committee the call started on
\* rotated left by k mod N positions: same size, same members, same cyclic
\* order.
C1_AcceptedRotatesByCounter ==
    \A t \in Threads :
        (Done(t) /\ ret[t] = "true") =>
            m_DSCommittee = RotateLeft(pre[t], K(t) % N(t))

\* An accepted block whose counter exceeds the committee size has rotated
\* the committee.
C1_Witness ==
    /\ Done(1) /\ ret[1] = "true"
    /\ K(1) > N(1)
    /\ m_DSCommittee # pre[1]

(***************************************************************************)
(* C2                                                                      *)
(***************************************************************************)

\* C2: ProcessVCBlock or VerifyVCBlockCoSignature return true only if B2
\* flags at least NumForConsensus(N) members, and a block whose B2 flags
\* NumForConsensus(N) - 1 members is never accepted and never rotates the
\* committee.
C2_AcceptRequiresQuorum ==
    \A t \in Threads :
        InCall(t) =>
            /\ (vret[t] = "true" \/ ret[t] = "true") =>
                   CountBits(vcblock[t].b2) >= NumForConsensus(N(t))
            /\ CountBits(vcblock[t].b2) = NumForConsensus(N(t)) - 1 =>
                   /\ vret[t] # "true"
                   /\ ret[t] # "true"
                   /\ m_DSCommittee = pre[t]

\* A block one signer short of the quorum, otherwise beyond reproach
\* (candidate, epoch, B2 length, CS2 by exactly the flagged members), has
\* been rejected by the verifier.
C2_Witness ==
    /\ Done(1) /\ ret[1] = "false" /\ vret[1] = "false"
    /\ EpochMatches(1) /\ CandidateMatches(1) /\ K(1) >= 1
    /\ Len(vcblock[1].b2) = N(1)
    /\ CountBits(vcblock[1].b2) = NumForConsensus(N(1)) - 1
    /\ CountBits(vcblock[1].b2) >= 1
    /\ SignedByFlagged(1)

(***************************************************************************)
(* C5                                                                      *)
(***************************************************************************)

\* C5: whenever ProcessVCBlock returns false the committee is the one the
\* call started on, and no rotation step runs (nor has the committee
\* changed) unless VerifyVCBlockCoSignature has returned true.
C5_RejectLeavesCommittee ==
    \A t \in Threads :
        /\ (Done(t) /\ ret[t] = "false") => m_DSCommittee = pre[t]
        /\ (pc[t] \in {"emplace", "pop"}
              \/ (pc[t] # "idle" /\ m_DSCommittee # pre[t]))
             => vret[t] = "true"

\* A block with a matching candidate and a non-zero counter has been
\* rejected by the Schnorr verification, after the keys were collected.
C5_Witness ==
    /\ Done(1) /\ ret[1] = "false" /\ vret[1] = "false"
    /\ EpochMatches(1) /\ CandidateMatches(1)
    /\ K(1) % N(1) >= 1
    /\ QuorumFlagged(1)
    /\ CountBits(vcblock[1].b2) = NumForConsensus(N(1))
    /\ ~SignedByFlagged(1)

(***************************************************************************)
(* C6                                                                      *)
(***************************************************************************)

\* C6: for every counter value ProcessVCBlock ends with true or false; the
\* committee is never indexed out of range, so no call ends with an
\* exception.
C6_NoOutOfRange ==
    \A t \in Threads :
        /\ ret[t] # "exception"
        /\ Done(t) => ret[t] \in {"true", "false"}

(***************************************************************************)
(* C7                                                                      *)
(***************************************************************************)

\* C7: a block whose candidate leader differs in public key or in network
\* address from the member at index k mod N is rejected (ProcessVCBlock
\* returns false) with the committee unchanged, whatever its co-signature.
C7_MismatchRejected ==
    \A t \in Threads :
        (Done(t) /\ vcblock[t].wellFormed /\ EpochMatches(t)
           /\ ~CandidateMatches(t))
          => (ret[t] = "false" /\ m_DSCommittee = pre[t])

(***************************************************************************)
(* C8                                                                      *)
(***************************************************************************)

\* C8: a block whose header epoch differs from the node's current epoch is
\* rejected (ProcessVCBlock returns false) whatever its other fields are,
\* and the committee is never touched during the call.
C8_WrongEpochRejected ==
    \A t \in Threads :
        (InCall(t) /\ ~EpochMatches(t)) =>
            /\ m_DSCommittee = pre[t]
            /\ ret[t] # "true"
            /\ Done(t) => ret[t] = "false"

\* A block of another epoch with a matching candidate, a quorum in B2 and a
\* co-signature by exactly the flagged members has been rejected.
C8_Witness ==
    /\ Done(1) /\ ret[1] = "false"
    /\ vcblock[1].wellFormed /\ ~EpochMatches(1)
    /\ CandidateMatches(1) /\ K(1) >= 1 /\ K(1) < N(1)
    /\ Len(vcblock[1].b2) = N(1)
    /\ CountBits(vcblock[1].b2) = NumForConsensus(N(1))
    /\ SignedByFlagged(1)

(***************************************************************************)
(* C9                                                                      *)
(***************************************************************************)

\* C9: a block whose B2 has not the length of the committee is never
\* accepted, and VerifyVCBlockCoSignature returns false on it before it
\* collects a key or checks the signature.
C9_BitmapSizeMismatchRejected ==
    \A t \in Threads :
        (InCall(t) /\ Len(vcblock[t].b2) # N(t)) =>
            /\ ret[t] # "true"
            /\ vret[t] # "true"
            /\ keys[t] = <<>> /\ count[t] = 0 /\ index[t] = 0
            /\ pc[t] \notin {"collect", "cosig", "commit", "emplace", "pop"}

\* The verifier has returned false on a block with a longer B2 that flags
\* an exact quorum, signed by exactly the flagged members.
C9_Witness ==
    /\ Done(1) /\ ret[1] = "false" /\ vret[1] = "false"
    /\ Len(vcblock[1].b2) = N(1) + 1
    /\ CountBits(vcblock[1].b2) = NumForConsensus(N(1))
    /\ SignedByFlagged(1)
    /\ K(1) >= 1

(***************************************************************************)
(* C10                                                                     *)
(***************************************************************************)

\* C10: VerifyVCBlockCoSignature returns true on every block whose B2 has
\* the length of the committee and flags NumForConsensus(N) members or
\* more, and whose CS2 is a signature over the canonical message by exactly
\* the flagged members.
C10_QuorumOrMoreVerified ==
    \A t \in Threads :
        (InCall(t) /\ vret[t] # "none" /\ QuorumFlagged(t)
           /\ SignedByFlagged(t))
          => vret[t] = "true"

(***************************************************************************)
(* C3                                                                      *)
(***************************************************************************)

\* C3: while a thread commits an accepted block with effective index
\* k >= 2, the committee a reader can get hold of (the mutex is free) is
\* never the committee the call started on rotated by j positions with
\* 0 < j < k.
C3_NoPartialRotationVisible ==
    \A t \in Threads :
        (pc[t] \in {"commit", "emplace", "pop"}
           /\ newCandidateLeader[t] >= 2
           /\ m_mutexDSCommittee = Free)
          => \A j \in 1..(newCandidateLeader[t] - 1) :
                 m_DSCommittee # RotateLeft(pre[t], j)

(***************************************************************************)
(* C4                                                                      *)
(***************************************************************************)

\* The outcomes and the committee after thread a's call and then thread b's
\* call, each run on its own, starting from committee c.
SerialOutcome(c, a, b) ==
    LET ra == ProcessVCBlockAlone(c, vcblock[a], m_currentEpochNum)
        rb == ProcessVCBlockAlone(ra.committee, vcblock[b], m_currentEpochNum)
    IN [first |-> ra.ret, second |-> rb.ret, committee |-> rb.committee]

\* C4: when two calls of ProcessVCBlock have run concurrently on the same
\* committee, their two return values and the final committee are those of
\* the two calls run one after the other in some order.
C4_Serializable ==
    (\A t \in Threads : Done(t)) =>
        \E a \in Threads : \E b \in Threads \ {a} :
            LET s == SerialOutcome(Committee(Len(m_DSCommittee)), a, b)
            IN /\ ret[a] = s.first
               /\ ret[b] = s.second
               /\ m_DSCommittee = s.committee

(***************************************************************************)
(* C11                                                                     *)
(***************************************************************************)

\* A co-signature the verifier is specified to accept: B2 has the length
\* of the committee, flags a quorum or more, and CS2 signs the canonical
\* message under the aggregate key of exactly the flagged members.
ValidQuorumCoSignature(t) == QuorumFlagged(t) /\ SignedByFlagged(t)

\* C11: a block whose counter k exceeds the committee size N, whose
\* candidate leader is the member at index k mod N, whose epoch is current
\* and whose quorum co-signature is valid is accepted, after exactly
\* k mod N rotations.
C11_WrappedCounterAccepted ==
    \A t \in Threads :
        (Done(t) /\ vcblock[t].wellFormed /\ K(t) > N(t)
           /\ EpochMatches(t) /\ CandidateMatches(t)
           /\ ValidQuorumCoSignature(t))
          => /\ ret[t] = "true"
             /\ x[t] = K(t) % N(t)
             /\ m_DSCommittee = RotateLeft(pre[t], K(t) % N(t))

(***************************************************************************)
(* C15                                                                     *)
(***************************************************************************)

\* C15: a block with counter 0 whose candidate leader is the front member,
\* whose epoch is current and whose quorum co-signature is valid is
\* accepted: ProcessVCBlock returns true after no rotation step at all and
\* the committee is the one the call started on.
C15_ZeroCounterAccepted ==
    \A t \in Threads :
        (Done(t) /\ vcblock[t].wellFormed /\ K(t) = 0
           /\ EpochMatches(t) /\ CandidateMatches(t)
           /\ ValidQuorumCoSignature(t))
          => /\ ret[t] = "true"
             /\ x[t] = 0
             /\ m_DSCommittee = pre[t]

(***************************************************************************)
(* C13                                                                     *)
(***************************************************************************)

\* [m0, m1, ..., m(N-1)] with its front member moved to the back.
FrontToBack(c) == [i \in 1..Len(c) |-> c[(i % Len(c)) + 1]]

\* Thread t leaves UpdateDSCommiteeCompositionAfterVC in this step.
LeavesUpdate(t) == pc[t] = "pop" /\ pc'[t] = "commit"

\* C13: one call of UpdateDSCommiteeCompositionAfterVC on the committee
\* [m0, m1, ..., m(N-1)] leaves [m1, ..., m(N-1), m0]; a committee of one
\* member is left as it is.
C13_UpdateMovesFrontToBack ==
    /\ PopFront(EmplaceBackFront(Committee(1))) = Committee(1)
    /\ [][\A t \in Threads :
              LeavesUpdate(t) => m_DSCommittee' = FrontToBack(entry[t])]_vars

\* A call of UpdateDSCommiteeCompositionAfterVC on a committee of three or
\* more members is over.
C13_Witness ==
    /\ pc[1] = "commit" /\ x[1] = 1
    /\ N(1) >= 3
    /\ m_DSCommittee = FrontToBack(pre[1])
    /\ m_DSCommittee # pre[1]

(***************************************************************************)
(* C17                                                                     *)
(***************************************************************************)

\* C17: when ProcessVCBlock has returned true, the front member of the
\* committee has the public key and the network address the block's header
\* names as candidate leader.
C17_FrontIsCandidateLeader ==
    \A t \in Threads :
        (Done(t) /\ ret[t] = "true") =>
            /\ Head(m_DSCommittee).first
                 = vcblock[t].header.candidateLeaderPubKey
            /\ Head(m_DSCommittee).second
                 = vcblock[t].header.candidateLeaderNetworkInfo

\* A block has been accepted whose candidate leader was not the front
\* member when the call started.
C17_Witness ==
    /\ Done(1) /\ ret[1] = "true"
    /\ K(1) % N(1) >= 1
    /\ Head(pre[1]).first # vcblock[1].header.candidateLeaderPubKey

(***************************************************************************)
(* C18                                                                     *)
(***************************************************************************)

\* c holds no public key twice.
DistinctKeys(c) ==
    \A i \in DOMAIN c : \A j \in DOMAIN c : c[i].first = c[j].first => i = j

\* C18: between calls of ProcessVCBlock, whatever blocks were processed,
\* the committee is a cyclic rotation of the committee the node started
\* with: same size, not empty, same members, no public key twice.
C18_CommitteeIsRotationOfGenesis ==
    (pc[1] \in {"idle", "done"}) =>
        /\ \E j \in 0..(Len(genesis) - 1) :
               m_DSCommittee = RotateLeft(genesis, j)
        /\ Len(m_DSCommittee) = Len(genesis)
        /\ Len(m_DSCommittee) >= 1
        /\ {m_DSCommittee[i] : i \in DOMAIN m_DSCommittee}
             = {genesis[i] : i \in DOMAIN genesis}
        /\ DistinctKeys(m_DSCommittee)

\* A block has been rejected after earlier blocks rotated the committee.
C18_Witness ==
    /\ Done(1) /\ ret[1] = "false"
    /\ pre[1] # genesis
    /\ m_DSCommittee = pre[1]

(***************************************************************************)
(* C12                                                                     *)
(***************************************************************************)

\* The block of an honest proposer for counter k on committee c: candidate
\* leader c[k], an exact quorum flagged and signing.
SyntheticBlock(c, k, epoch) ==
    LET n == Len(c)
        b2 == PrefixVector(n, NumForConsensus(n))
    IN Block(epoch, k, At(c, k).second, At(c, k).first, 0, PrefixVector(n, n),
             b2, FlaggedKeys(b2, c), FALSE)

\* The previous call accepted its block and the current call follows it.
AfterAccepted(t) == prev.ret = "true" /\ pc[t] # "idle"

\* Sum of the counters of the previous and of the current block, modulo
\* the committee size.
SumOfCounters(t) == (prev.blk.header.counter + K(t)) % Len(prev.pre)

\* C12: when a block with counter k1 and then a block with counter k2 have
\* been accepted one after the other, the committee is the one that a
\* single accepted block with counter (k1 + k2) mod N leaves when it is
\* processed on the committee the first call started on.
C12_RotationComposes ==
    \A t \in Threads :
        (AfterAccepted(t) /\ Done(t) /\ ret[t] = "true") =>
            LET one == ProcessVCBlockAlone(
                           prev.pre,
                           SyntheticBlock(prev.pre, SumOfCounters(t),
                                          m_currentEpochNum),
                           m_currentEpochNum)
            IN /\ one.ret = "true"
               /\ one.committee = m_DSCommittee
               /\ m_DSCommittee = RotateLeft(prev.pre, SumOfCounters(t))

\* Two blocks have been accepted in a row whose counters are both non-zero
\* modulo N and add up to N or more.
C12_Witness ==
    /\ AfterAccepted(1) /\ Done(1) /\ ret[1] = "true"
    /\ prev.blk.header.counter % N(1) >= 1
    /\ K(1) % N(1) >= 1
    /\ (prev.blk.header.counter % N(1)) + (K(1) % N(1)) > N(1)

(***************************************************************************)
(* C19                                                                     *)
(***************************************************************************)

\* Thread t processes again the block the previous call accepted, and that
\* block rotated the committee.
Replay(t) ==
    /\ AfterAccepted(t)
    /\ vcblock[t] = prev.blk
    /\ prev.blk.header.counter % Len(prev.pre) # 0

\* C19: when a block with k mod N # 0 has been accepted and is processed
\* again in the same epoch, the second call is rejected at the
\* leader-identity check: it never reaches the co-signature verification,
\* returns false, and the committee is not rotated again.
C19_ReplayRejected ==
    \A t \in Threads :
        Replay(t) =>
            /\ pc[t] \in {"decode", "epoch", "counter", "wrap", "peer",
                          "pubkey", "mismatch", "done"}
            /\ vret[t] = "none"
            /\ ret[t] \in {"none", "false"}
            /\ m_DSCommittee = pre[t]
            /\ m_DSCommittee
                 = RotateLeft(prev.pre,
                              prev.blk.header.counter % Len(prev.pre))

\* The replayed block has been rejected.
C19_Witness ==
    /\ Replay(1) /\ Done(1) /\ ret[1] = "false"
    /\ prev.blk.header.counter > Len(prev.pre)

(***************************************************************************)
(* C14                                                                     *)
(***************************************************************************)

\* Thread t is at a statement of ProcessVCBlock or of
\* VerifyVCBlockCoSignature that reads the committee (lines 181, 189, 192,
\* 194, 202, 66, 78).
AtCommitteeRead(t) ==
    pc[t] \in {"counter", "wrap", "peer", "pubkey", "mismatch", "size",
               "collect"}

\* Thread t executes that statement in this step.
ReadsCommittee(t) ==
    /\ AtCommitteeRead(t)
    /\ <<pc'[t], index'[t]>> # <<pc[t], index[t]>>

\* C14: no read of the committee, by a concurrent ProcessVCBlock or
\* VerifyVCBlockCoSignature, sees the roster between emplace_back and
\* pop_front: every read finds N members and no public key twice.
C14_RotationStepAtomicForReaders ==
    [][\A t \in Threads :
           ReadsCommittee(t) =>
               /\ Len(m_DSCommittee) = Len(genesis)
               /\ DistinctKeys(m_DSCommittee)]_vars

(***************************************************************************)
(* C16                                                                     *)
(***************************************************************************)

\* Number of positions in which two bitmaps of the same length differ.
BitsChanged(a, b) == Cardinality({i \in DOMAIN a : a[i] # b[i]})

\* The components of the signed message in which blocks a and b differ.
ChangedComponents(a, b) ==
    {f \in {"epoch", "counter", "peer", "pubkey", "cs1", "b1"} :
        CASE f = "epoch" -> a.header.epoch # b.header.epoch
          [] f = "counter" -> a.header.counter # b.header.counter
          [] f = "peer" -> a.header.candidateLeaderNetworkInfo
                             # b.header.candidateLeaderNetworkInfo
          [] f = "pubkey" -> a.header.candidateLeaderPubKey
                               # b.header.candidateLeaderPubKey
          [] f = "cs1" -> a.cs1 # b.cs1
          [] f = "b1" -> a.b1 # b.b1}

\* Thread t verifies the block that VerifyVCBlockCoSignature accepted last,
\* on the same committee, with the same CS2 and B2 and with one component
\* of the signed message changed (for B1: one bit).
TamperedOnce(t) ==
    /\ prev.vret = "true"
    /\ pc[t] # "idle"
    /\ pre[t] = prev.pre
    /\ vcblock[t].cs2 = prev.blk.cs2
    /\ vcblock[t].b2 = prev.blk.b2
    /\ Cardinality(ChangedComponents(vcblock[t], prev.blk)) = 1
    /\ Len(vcblock[t].b1) = Len(prev.blk.b1)
    /\ BitsChanged(vcblock[t].b1, prev.blk.b1) <= 1

\* C16: a block that VerifyVCBlockCoSignature accepts is rejected by it
\* once any one component of header || CS1 || packed B1 is changed while
\* CS2 and B2 are kept.
C16_TamperedMessageRejected ==
    \A t \in Threads :
        (TamperedOnce(t) /\ vret[t] # "none") => vret[t] = "false"

\* The verifier has rejected an accepted block with one bit of B1 flipped.
C16_Witness ==
    /\ TamperedOnce(1)
    /\ vret[1] = "false"
    /\ ChangedComponents(vcblock[1], prev.blk) = {"b1"}
    /\ count[1] = NumForConsensus(N(1))

====
